---- MODULE Spec2Model ----
(***************************************************************************)
(* Model of prometheus_mcp_server: the upstream request executor           *)
(* (get_prometheus_auth, make_prometheus_request), the response shapers    *)
(* (apply_pagination, filter_metrics, create_compact_query_result) and the *)
(* five tools built on them (server.py).                                   *)
(*                                                                         *)
(* Python values are represented as follows.                               *)
(*   Optional[int]   [some |-> BOOLEAN, val |-> Int]   (None: some = FALSE) *)
(*   str             a sequence of one-character strings, so that          *)
(*                   startswith / rstrip / re.search can be computed       *)
(*   list            a sequence                                            *)
(*   dict            a function (record) or a set of [name, value] pairs   *)
(*   exception       [cls |-> the classes it is an instance of,            *)
(*                    msg |-> the parts of its message]                    *)
(***************************************************************************)
EXTENDS Integers, Sequences, FiniteSets, TLC

VARIABLES
    config,      \* server.py:63  the module-level PrometheusConfig
    requests_lib,\* which exception class response.json() raises (requests version)
    pc,          \* position of the current tool invocation
    call,        \* the tool invoked and its arguments
    sent,        \* the GET requests issued by the current invocation, in order
    response,    \* what the upstream answered to the pending request
    outcome,     \* what the invocation returned or raised
    fn_pc,       \* position of the pure-function harness
    fn_arg,      \* arguments handed to the shaper under study
    fn_ret,      \* value it returned
    environ,     \* the PROMETHEUS_MCP_* environment variables the process starts with
    mcp_server_config, \* server.py:69  config.mcp_server_config
    proc,        \* main.py: position and effects of run_server
    slots        \* tool invocations dispatched concurrently, one record each

vars == <<config, requests_lib, pc, call, sent, response, outcome, fn_pc, fn_arg, fn_ret,
          environ, mcp_server_config, proc, slots>>
toolVars == <<config, requests_lib, pc, call, sent, response, outcome>>
fnVars == <<fn_pc, fn_arg, fn_ret>>
mainVars == <<environ, mcp_server_config, proc>>
auxVars == <<mainVars, slots>>

----------------------------------------------------------------------------
(* Bounds of the model *)

MaxLen == 4         \* longest item sequence handed to apply_pagination
MaxLimit == 5       \* largest limit
MaxOffset == 5      \* largest |offset|
MaxNames == 2       \* longest metric list handed to filter_metrics
MaxVec == 2         \* longest vector handed to create_compact_query_result
MaxSlots == 2       \* tool invocations the runtime holds at once

----------------------------------------------------------------------------
(* Python helpers *)

None == [some |-> FALSE, val |-> 0]
Some(x) == [some |-> TRUE, val |-> x]

Min(a, b) == IF a <= b THEN a ELSE b
Max(a, b) == IF a >= b THEN a ELSE b

\* Python's normalisation of a slice index against a sequence of length n.
PyIndex(i, n) == IF i < 0 THEN Max(i + n, 0) ELSE Min(i, n)

\* Python's s[start:stop]; stop is an Optional[int] (None: to the end).
PySlice(s, start, stop) ==
    LET n == Len(s)
        lo == PyIndex(start, n)
        hi == IF stop.some THEN PyIndex(stop.val, n) ELSE n
    IN  IF lo >= hi THEN <<>> ELSE SubSeq(s, lo + 1, hi)

\* An exception: the classes it is an instance of, and its message.
Exc(cls, msg) == [cls |-> cls, msg |-> msg]
NoExc == Exc({}, <<>>)

\* str.startswith
StartsWith(s, p) == Len(p) <= Len(s) /\ SubSeq(s, 1, Len(p)) = p

----------------------------------------------------------------------------
(* apply_pagination, server.py:134-165 *)

apply_pagination_hasmore_le(data, limit, offset) ==
    LET total_count == Len(data)
        start_index == IF offset.some /\ offset.val # 0 THEN offset.val ELSE 0
        end_index == start_index + limit.val
        paginated_data == IF limit.some
                          THEN PySlice(data, start_index, Some(end_index))
                          ELSE PySlice(data, start_index, None)
        has_more == IF limit.some THEN end_index <= total_count ELSE FALSE
    IN  [data |-> paginated_data,
         metadata |-> [total |-> total_count,
                       offset |-> start_index,
                       limit |-> limit,
                       returned |-> Len(paginated_data),
                       hasMore |-> has_more]]

apply_pagination_hasmore_always(data, limit, offset) ==
    LET total_count == Len(data)
        start_index == IF offset.some /\ offset.val # 0 THEN offset.val ELSE 0
        end_index == start_index + limit.val
        paginated_data == IF limit.some
                          THEN PySlice(data, start_index, Some(end_index))
                          ELSE PySlice(data, start_index, None)
    IN  [data |-> paginated_data,
         metadata |-> [total |-> total_count,
                       offset |-> start_index,
                       limit |-> limit,
                       returned |-> Len(paginated_data),
                       hasMore |-> limit.some]]

apply_pagination(data, limit, offset) ==
    LET total_count == Len(data)
        start_index == IF offset.some /\ offset.val # 0 THEN offset.val ELSE 0
        end_index == start_index + limit.val
        paginated_data == IF limit.some
                          THEN PySlice(data, start_index, Some(end_index))
                          ELSE PySlice(data, start_index, None)
        has_more == IF limit.some THEN end_index < total_count ELSE FALSE
    IN  [data |-> paginated_data,
         metadata |-> [total |-> total_count,
                       offset |-> start_index,
                       limit |-> limit,
                       returned |-> Len(paginated_data),
                       hasMore |-> has_more]]

----------------------------------------------------------------------------
(* filter_metrics, server.py:167-191 *)

NoneStr == [some |-> FALSE, val |-> <<>>]
SomeStr(s) == [some |-> TRUE, val |-> s]

\* Python truthiness of an Optional[str]: None and "" are both false.
Truthy(o) == o.some /\ o.val # <<>>

\* The regex dialect modelled: literal characters, "." (any character),
\* "^" (start of string) and "[" (opens a character set).
RegexChars == {"a", "b"}
RegexTokens == RegexChars \cup {".", "^", "["}

\* re.compile: no token of the dialect closes a character set, so a pattern
\* holding "[" is an unterminated set and raises re.error.
re_compile_ok(p) == \A i \in 1..Len(p) : p[i] # "["

\* Whether tokens i.. of p match s starting at (1-based) position j.
RECURSIVE re_match_at(_, _, _, _)
re_match_at(p, i, s, j) ==
    IF i > Len(p) THEN TRUE
    ELSE IF p[i] = "^" THEN j = 1 /\ re_match_at(p, i + 1, s, j)
    ELSE IF p[i] = "." THEN j <= Len(s) /\ re_match_at(p, i + 1, s, j + 1)
    ELSE j <= Len(s) /\ s[j] = p[i] /\ re_match_at(p, i + 1, s, j + 1)

\* pattern.search(s): a match starting anywhere in s.
re_search(p, s) == \E j \in 1..(Len(s) + 1) : re_match_at(p, 1, s, j)

\* pattern.match(s): a match starting at the beginning of s only.
re_match(p, s) == re_match_at(p, 1, s, 1)

\* What a shaper call comes to: the value returned, or an exception escaping.
Value(v) == [raised |-> FALSE, value |-> v, err |-> NoExc]
Escapes(e) == [raised |-> TRUE, value |-> <<>>, err |-> e]

ReErrorCls == {"re.error", "Exception"}

filter_metrics_anchored(metrics, filter_pattern, prefix) ==
    LET byPrefix == IF Truthy(prefix)
                    THEN SelectSeq(metrics, LAMBDA m : StartsWith(m, prefix.val))
                    ELSE metrics
    IN  IF Truthy(filter_pattern)
        THEN IF re_compile_ok(filter_pattern.val)
             THEN Value(SelectSeq(byPrefix, LAMBDA m : re_match(filter_pattern.val, m)))
             ELSE Value(byPrefix)
        ELSE Value(byPrefix)

filter_metrics_uncaught(metrics, filter_pattern, prefix) ==
    LET byPrefix == IF Truthy(prefix)
                    THEN SelectSeq(metrics, LAMBDA m : StartsWith(m, prefix.val))
                    ELSE metrics
    IN  IF Truthy(filter_pattern)
        THEN IF re_compile_ok(filter_pattern.val)
             THEN Value(SelectSeq(byPrefix, LAMBDA m : re_search(filter_pattern.val, m)))
             ELSE Escapes(Exc(ReErrorCls, <<"unterminated character set">>))
        ELSE Value(byPrefix)

filter_metrics(metrics, filter_pattern, prefix) ==
    LET byPrefix == IF Truthy(prefix)                          \* line 180
                    THEN SelectSeq(metrics, LAMBDA m : StartsWith(m, prefix.val))
                    ELSE metrics
    IN  IF Truthy(filter_pattern)                              \* line 183
        THEN IF re_compile_ok(filter_pattern.val)
             THEN Value(SelectSeq(byPrefix, LAMBDA m : re_search(filter_pattern.val, m)))
             ELSE Value(byPrefix)   \* re.error caught at 187: warning logged
        ELSE Value(byPrefix)

----------------------------------------------------------------------------
(* create_compact_query_result, server.py:193-221 *)

compact_item(item) ==
    LET metric == item.metric
        value == item.value
    IN  [name |-> IF "__name__" \in DOMAIN metric THEN metric["__name__"] ELSE "unknown",
         value |-> value[2],
         timestamp |-> value[1],
         labels |-> [k \in (DOMAIN metric) \ {"__name__"} |-> metric[k]]]

create_compact_query_result_keep_name(result_data) ==
    IF result_data.resultType # "vector"
    THEN result_data
    ELSE [resultType |-> "compact_vector",
          result |-> [i \in 1..Len(result_data.result) |->
                        [compact_item(result_data.result[i]) EXCEPT
                            !.labels = result_data.result[i].metric]]]

create_compact_query_result(result_data) ==
    IF result_data.resultType # "vector"
    THEN result_data
    ELSE [resultType |-> "compact_vector",
          result |-> [i \in 1..Len(result_data.result) |->
                        compact_item(result_data.result[i])]]

----------------------------------------------------------------------------
(* Configuration, server.py:51-74.  An unset environment variable gives "". *)

\* PROMETHEUS_URL as a sequence of characters; "h" abbreviates "http://host".
Urls == {<<>>, <<"h">>, <<"h", "/">>}

Configs == [url : Urls,
            username : {"", "alice"},
            password : {"", "secret"},
            token : {"", "tok"},
            org_id : {"", "org1"}]

\* str.rstrip('/')
RECURSIVE rstrip_slash(_)
rstrip_slash(s) ==
    IF s # <<>> /\ s[Len(s)] = "/" THEN rstrip_slash(SubSeq(s, 1, Len(s) - 1)) ELSE s

----------------------------------------------------------------------------
(* The exception classes of the request executor *)

ValueErrorCls == {"ValueError", "Exception"}
KeyErrorCls == {"KeyError", "LookupError", "Exception"}
ConnectionErrorCls == {"ConnectionError", "RequestException", "OSError", "Exception"}
HTTPErrorCls == {"HTTPError", "RequestException", "OSError", "Exception"}

\* What response.json() raises on a body that is not JSON.  requests >= 2.27
\* raises requests.exceptions.JSONDecodeError, which derives from both
\* InvalidJSONError (a RequestException) and json.JSONDecodeError; older
\* releases let json.JSONDecodeError through.
RequestsLibs == {"requests_ge_2_27", "requests_lt_2_27"}
JsonErrorCls(lib) ==
    IF lib = "requests_ge_2_27"
    THEN {"JSONDecodeError", "InvalidJSONError", "RequestException", "OSError",
          "ValueError", "Exception"}
    ELSE {"JSONDecodeError", "ValueError", "Exception"}

----------------------------------------------------------------------------
(* get_prometheus_auth, server.py:76-82 *)

NoBasic == [kind |-> "none", username |-> "", password |-> ""]

get_prometheus_auth_basic_first ==
    IF config.username # "" /\ config.password # ""
    THEN [kind |-> "basic", headers |-> {},
          username |-> config.username, password |-> config.password]
    ELSE IF config.token # ""
    THEN [kind |-> "dict",
          headers |-> {[name |-> "Authorization", value |-> <<"Bearer ", config.token>>]},
          username |-> "", password |-> ""]
    ELSE [kind |-> "none", headers |-> {}, username |-> "", password |-> ""]

get_prometheus_auth ==
    IF config.token # ""
    THEN [kind |-> "dict",
          headers |-> {[name |-> "Authorization", value |-> <<"Bearer ", config.token>>]},
          username |-> "", password |-> ""]
    ELSE IF config.username # "" /\ config.password # ""
    THEN [kind |-> "basic", headers |-> {},
          username |-> config.username, password |-> config.password]
    ELSE [kind |-> "none", headers |-> {}, username |-> "", password |-> ""]

----------------------------------------------------------------------------
(* make_prometheus_request, server.py:84-132.  The function blocks in        *)
(* requests.get: the part up to the GET and the part after it are separate. *)

\* Lines 90-106: the request handed to requests.get.
build_request(endpoint, params) ==
    LET auth == get_prometheus_auth
        tokenHeaders == IF auth.kind = "dict" THEN auth.headers ELSE {}
        orgHeaders == IF config.org_id # ""
                      THEN {[name |-> "X-Scope-OrgID", value |-> <<config.org_id>>]}
                      ELSE {}
    IN  [url |-> rstrip_slash(config.url) \o <<"/api/v1/", endpoint>>,
         params |-> params,
         auth |-> IF auth.kind = "basic"
                  THEN [kind |-> "basic", username |-> auth.username,
                        password |-> auth.password]
                  ELSE NoBasic,
         headers |-> tokenHeaders \cup orgHeaders]

NoRequest == [url |-> <<>>, params |-> {}, auth |-> NoBasic, headers |-> {}]

make_prometheus_request_send_unchecked(endpoint, params) ==
    [raised |-> FALSE, err |-> NoExc, request |-> build_request(endpoint, params)]

\* Lines 86-106: the configuration check, then the GET.
make_prometheus_request_send(endpoint, params) ==
    IF config.url = <<>>
    THEN [raised |-> TRUE,
          err |-> Exc(ValueErrorCls, <<"Prometheus configuration is missing. Please set PROMETHEUS_URL environment variable.">>),
          request |-> NoRequest]
    ELSE [raised |-> FALSE, err |-> NoExc, request |-> build_request(endpoint, params)]

\* Lines 124-132: the except clauses, tried in order.
except_clauses(e) ==
    IF "RequestException" \in e.cls THEN e
    ELSE IF "JSONDecodeError" \in e.cls
    THEN Exc(ValueErrorCls, <<"Invalid JSON response from Prometheus: ">> \o e.msg)
    ELSE e

Raised(e) == [ok |-> FALSE, data |-> <<>>, err |-> except_clauses(e)]
Returned(d) == [ok |-> TRUE, data |-> d, err |-> NoExc]

\* Lines 106-122 for upstream answer r: the exception raised inside the try
\* block (then passed through the except clauses) or the data returned.
make_prometheus_request_recv_ignore_status(r) ==
    IF r.kind = "conn_error" THEN Raised(Exc(ConnectionErrorCls, <<"connection refused">>))
    ELSE IF ~r.status_ok THEN Raised(Exc(HTTPErrorCls, <<"500 Server Error">>))
    ELSE IF ~r.is_json THEN Raised(Exc(JsonErrorCls(requests_lib), <<"Expecting value">>))
    ELSE IF ~r.env.has_data THEN Raised(Exc(KeyErrorCls, <<"data">>))
    ELSE Returned(r.env.data)

make_prometheus_request_recv(r) ==
    IF r.kind = "conn_error"                    \* requests.get raises
    THEN Raised(Exc(ConnectionErrorCls, <<"connection refused">>))
    ELSE IF ~r.status_ok                        \* response.raise_for_status()
    THEN Raised(Exc(HTTPErrorCls, <<"500 Server Error">>))
    ELSE IF ~r.is_json                          \* response.json()
    THEN Raised(Exc(JsonErrorCls(requests_lib), <<"Expecting value">>))
    ELSE IF ~r.env.has_status                   \* result["status"]
    THEN Raised(Exc(KeyErrorCls, <<"status">>))
    ELSE IF r.env.status # "success"
    THEN Raised(Exc(ValueErrorCls,
                    <<"Prometheus API error: ",
                      IF r.env.has_error THEN r.env.error ELSE "Unknown error">>))
    ELSE IF ~r.env.has_data                     \* return result["data"]
    THEN Raised(Exc(KeyErrorCls, <<"data">>))
    ELSE Returned(r.env.data)

----------------------------------------------------------------------------
(* The five tools, server.py:223-429.  Each builds its parameters, calls    *)
(* make_prometheus_request once and shapes the data it returns.             *)

Param(n, v) == [name |-> n, value |-> v]

tool_endpoint_shared(c) ==
    CASE c.tool = "execute_query" -> "query"
      [] c.tool = "execute_range_query" -> "query"
      [] c.tool = "list_metrics" -> "label/__name__/values"
      [] c.tool = "get_metric_metadata" -> "metadata"
      [] c.tool = "get_targets" -> "targets"

tool_endpoint(c) ==
    CASE c.tool = "execute_query" -> "query"
      [] c.tool = "execute_range_query" -> "query_range"
      [] c.tool = "list_metrics" -> "label/__name__/values"
      [] c.tool = "get_metric_metadata" -> "metadata"
      [] c.tool = "get_targets" -> "targets"

tool_params(c) ==
    CASE c.tool = "execute_query" ->
            {Param("query", c.query)} \cup
            (IF c.time # "" THEN {Param("time", c.time)} ELSE {})
      [] c.tool = "execute_range_query" ->
            {Param("query", c.query), Param("start", "t0"), Param("end", "t9"),
             Param("step", "15s")}
      [] c.tool = "list_metrics" -> {}
      [] c.tool = "get_metric_metadata" -> {Param("metric", c.query)}
      [] c.tool = "get_targets" -> {}

\* server.py:250-289
execute_query_total_of_page(c, data) ==
    LET base == [resultType |-> data.resultType, result |-> data.result]
        result_data == IF c.compact THEN create_compact_query_result(base) ELSE base
    IN  IF (c.limit.some \/ c.offset.some) /\ data.result_is_list
        THEN LET paginated == apply_pagination(data.result, c.limit, c.offset)
                 metadata == [paginated.metadata EXCEPT !.total = Len(paginated.data)]
                 compact_paginated ==
                     create_compact_query_result([resultType |-> data.resultType,
                                                  result |-> paginated.data])
             IN  IF c.compact
                 THEN [resultType |-> compact_paginated.resultType,
                       result |-> compact_paginated.result,
                       pagination |-> metadata]
                 ELSE [resultType |-> result_data.resultType,
                       result |-> paginated.data,
                       pagination |-> metadata]
        ELSE result_data

execute_query_compact_full(c, data) ==
    LET base == [resultType |-> data.resultType, result |-> data.result]
        result_data == IF c.compact THEN create_compact_query_result(base) ELSE base
    IN  IF (c.limit.some \/ c.offset.some) /\ data.result_is_list
        THEN LET paginated == apply_pagination(data.result, c.limit, c.offset)
             IN  IF c.compact
                 THEN [resultType |-> result_data.resultType,
                       result |-> result_data.result,
                       pagination |-> paginated.metadata]
                 ELSE [resultType |-> result_data.resultType,
                       result |-> paginated.data,
                       pagination |-> paginated.metadata]
        ELSE result_data

execute_query(c, data) ==
    LET base == [resultType |-> data.resultType, result |-> data.result]
        result_data == IF c.compact THEN create_compact_query_result(base) ELSE base
    IN  IF (c.limit.some \/ c.offset.some) /\ data.result_is_list
        THEN LET paginated == apply_pagination(data.result, c.limit, c.offset)
                 compact_paginated ==
                     create_compact_query_result(
                         [resultType |-> data.resultType, result |-> paginated.data])
             IN  IF c.compact
                 THEN [resultType |-> compact_paginated.resultType,
                       result |-> compact_paginated.result,
                       pagination |-> paginated.metadata]
                 ELSE [resultType |-> result_data.resultType,
                       result |-> paginated.data,
                       pagination |-> paginated.metadata]
        ELSE result_data

\* server.py:314-324
execute_range_query(c, data) ==
    [resultType |-> data.resultType, result |-> data.result]

\* server.py:347-368
list_metrics_paginate_first(c, data) ==
    IF c.limit.some \/ c.offset.some
    THEN LET paginated == apply_pagination(data, c.limit, c.offset)
             f == filter_metrics(paginated.data, c.filter_pattern, c.prefix)
         IN  IF f.raised THEN f
             ELSE Value([metrics |-> f.value, pagination |-> paginated.metadata])
    ELSE LET f == filter_metrics(data, c.filter_pattern, c.prefix)
         IN  IF f.raised THEN f
             ELSE Value([metrics |-> f.value, total |-> Len(f.value)])

list_metrics(c, data) ==
    LET f == filter_metrics(data, c.filter_pattern, c.prefix)
        filtered_metrics == f.value
    IN  IF f.raised THEN f
        ELSE IF c.limit.some \/ c.offset.some
        THEN LET paginated == apply_pagination(filtered_metrics, c.limit, c.offset)
             IN  Value([metrics |-> paginated.data, pagination |-> paginated.metadata])
        ELSE Value([metrics |-> filtered_metrics, total |-> Len(filtered_metrics)])

\* server.py:382-384
get_metric_metadata(c, data) == data.metadata

\* server.py:405-429
get_targets_dropped_if_unpaginated(c, data) ==
    LET active_targets == data.activeTargets
        dropped_targets == data.droppedTargets
    IN  IF c.limit.some \/ c.offset.some
        THEN LET paginated_active == apply_pagination(active_targets, c.limit, c.offset)
             IN  [activeTargets |-> paginated_active.data,
                  activePagination |-> paginated_active.metadata]
        ELSE IF ~c.active_only
             THEN [activeTargets |-> active_targets, droppedTargets |-> dropped_targets]
             ELSE [activeTargets |-> active_targets]

get_targets(c, data) ==
    LET active_targets == data.activeTargets
        dropped_targets == data.droppedTargets
    IN  IF c.limit.some \/ c.offset.some
        THEN LET paginated_active == apply_pagination(active_targets, c.limit, c.offset)
             IN  IF ~c.active_only
                 THEN [activeTargets |-> paginated_active.data,
                       activePagination |-> paginated_active.metadata,
                       droppedTargets |-> dropped_targets]
                 ELSE [activeTargets |-> paginated_active.data,
                       activePagination |-> paginated_active.metadata]
        ELSE IF ~c.active_only
             THEN [activeTargets |-> active_targets, droppedTargets |-> dropped_targets]
             ELSE [activeTargets |-> active_targets]

tool_shape(c, data) ==
    CASE c.tool = "execute_query" -> Value(execute_query(c, data))
      [] c.tool = "execute_range_query" -> Value(execute_range_query(c, data))
      [] c.tool = "list_metrics" -> list_metrics(c, data)
      [] c.tool = "get_metric_metadata" -> Value(get_metric_metadata(c, data))
      [] c.tool = "get_targets" -> Value(get_targets(c, data))

----------------------------------------------------------------------------
(* Inputs of the tool layer: the invocations a client makes and the answers *)
(* the upstream gives.                                                      *)

ToolLimits == {None, Some(1), Some(2)}
ToolOffsets == {None, Some(0), Some(1)}
ToolPatterns == {NoneStr, SomeStr(<<"b">>), SomeStr(<<"^", "b">>), SomeStr(<<"[">>)}
ToolPrefixes == {NoneStr, SomeStr(<<"a">>)}

Call(tool, query, time, limit, offset, compact, active_only, filter_pattern, prefix) ==
    [tool |-> tool, query |-> query, time |-> time, limit |-> limit,
     offset |-> offset, compact |-> compact, active_only |-> active_only,
     filter_pattern |-> filter_pattern, prefix |-> prefix]

NoCall == Call("none", "", "", None, None, FALSE, FALSE, NoneStr, NoneStr)

Calls ==
    {Call("execute_query", "up", t, l, o, k, FALSE, NoneStr, NoneStr) :
        t \in {"", "1700000000"}, l \in ToolLimits, o \in ToolOffsets, k \in BOOLEAN}
    \cup {Call("execute_range_query", "up", "", None, None, FALSE, FALSE, NoneStr, NoneStr)}
    \cup {Call("list_metrics", "", "", l, o, FALSE, FALSE, fp, px) :
        l \in ToolLimits, o \in ToolOffsets, fp \in ToolPatterns, px \in ToolPrefixes}
    \cup {Call("get_metric_metadata", "up", "", None, None, FALSE, FALSE, NoneStr, NoneStr)}
    \cup {Call("get_targets", "", "", l, o, FALSE, a, NoneStr, NoneStr) :
        l \in ToolLimits, o \in ToolOffsets, a \in BOOLEAN}

Item(metric, ts, v) == [metric |-> metric, value |-> <<ts, v>>]
VecItem1 == Item([__name__ |-> "up", job |-> "api"], 10, "1")
VecItem2 == Item([job |-> "db"], 11, "0")
VecItem3 == Item([__name__ |-> "cpu", job |-> "api", instance |-> "h1"], 12, "7")

QueryData(type, result, isList) ==
    [resultType |-> type, result |-> result, result_is_list |-> isList]

\* The data field per endpoint.  A scalar's result is the JSON array
\* [timestamp, value]; the last entry is a result that is no JSON array.
QueryDatas ==
    {QueryData("vector", <<>>, TRUE),
     QueryData("vector", <<VecItem1>>, TRUE),
     QueryData("vector", <<VecItem1, VecItem2>>, TRUE),
     QueryData("vector", <<VecItem1, VecItem2, VecItem3>>, TRUE),
     QueryData("matrix", <<[metric |-> [job |-> "api"], values |-> <<<<10, "1">>, <<11, "2">>>>]>>, TRUE),
     QueryData("scalar", <<10, "42">>, TRUE),
     QueryData("string", [text |-> "42"], FALSE)}

RangeDatas ==
    {QueryData("matrix", <<>>, TRUE),
     QueryData("matrix", <<[metric |-> [job |-> "api"], values |-> <<<<10, "1">>, <<11, "2">>>>]>>, TRUE)}

NameDatas ==
    {<<>>,
     <<<<"a", "b">>, <<"b", "a">>, <<"a", "a">>>>,
     <<<<"b">>, <<"a", "b">>, <<"b", "b">>, <<"a">>>>}

MetadataDatas ==
    {[metadata |-> <<>>], [metadata |-> <<[metric |-> "up", type |-> "gauge"]>>]}

TargetDatas ==
    {[activeTargets |-> <<>>, droppedTargets |-> <<>>],
     [activeTargets |-> <<"t1">>, droppedTargets |-> <<"d1">>],
     [activeTargets |-> <<"t1", "t2", "t3">>, droppedTargets |-> <<"d1", "d2">>]}

DatasFor(tool) ==
    CASE tool = "execute_query" -> QueryDatas
      [] tool = "execute_range_query" -> RangeDatas
      [] tool = "list_metrics" -> NameDatas
      [] tool = "get_metric_metadata" -> MetadataDatas
      [] tool = "get_targets" -> TargetDatas

Envelope(hasStatus, status, hasError, error, hasData, data) ==
    [has_status |-> hasStatus, status |-> status, has_error |-> hasError,
     error |-> error, has_data |-> hasData, data |-> data]

NoEnvelope == Envelope(FALSE, "", FALSE, "", FALSE, <<>>)

Envelopes(tool) ==
    {Envelope(TRUE, "success", FALSE, "", TRUE, d) : d \in DatasFor(tool)}
    \cup {Envelope(TRUE, "success", FALSE, "", FALSE, <<>>)}
    \cup {Envelope(TRUE, "error", TRUE, "bad query", TRUE, d) : d \in DatasFor(tool)}
    \cup {Envelope(TRUE, "error", he, IF he THEN "bad query" ELSE "", FALSE, <<>>) :
            he \in BOOLEAN}
    \cup {Envelope(TRUE, "error", FALSE, "", TRUE, d) : d \in DatasFor(tool)}
    \cup {Envelope(FALSE, "", FALSE, "", TRUE, d) : d \in DatasFor(tool)}

Response(kind, statusOk, isJson, env) ==
    [kind |-> kind, status_ok |-> statusOk, is_json |-> isJson, env |-> env]

NoResponse == Response("none", FALSE, FALSE, NoEnvelope)

Responses(tool) ==
    {Response("conn_error", FALSE, FALSE, NoEnvelope),
     Response("http", FALSE, FALSE, NoEnvelope),
     Response("http", FALSE, TRUE, Envelope(TRUE, "error", TRUE, "bad query", FALSE, <<>>)),
     Response("http", TRUE, FALSE, NoEnvelope)}
    \cup {Response("http", TRUE, TRUE, e) : e \in Envelopes(tool)}

----------------------------------------------------------------------------
(* The tool invocation as a state machine *)

Payload(v) == [present |-> TRUE, value |-> v]
NoPayload == [present |-> FALSE, value |-> <<>>]

Outcome(kind, payload, err) == [kind |-> kind, payload |-> payload, err |-> err]
NoOutcome == Outcome("none", NoPayload, NoExc)

FnOff == fn_pc = "off" /\ fn_arg = <<>> /\ fn_ret = <<>>

\* run_server is not under study, and no concurrent dispatch.
NoMcpRun == [called |-> FALSE, transport |-> <<>>, bind |-> FALSE,
             host |-> <<>>, port |-> 0]
Proc(at, setupOk, authMethod, run, exit) ==
    [pc |-> at, setup_ok |-> setupOk, auth_method |-> authMethod,
     mcp_run |-> run, exit_status |-> exit]
NoMcpConfig == [mcp_server_transport |-> <<>>, mcp_bind_host |-> <<>>, mcp_bind_port |-> 0]
MainOff ==
    /\ environ = <<>>
    /\ mcp_server_config = NoMcpConfig
    /\ proc = Proc("off", FALSE, "", NoMcpRun, None)
AuxOff == MainOff /\ slots = <<>>

Init ==
    /\ config \in Configs
    /\ requests_lib \in RequestsLibs
    /\ pc = "idle"
    /\ call = NoCall
    /\ sent = <<>>
    /\ response = NoResponse
    /\ outcome = NoOutcome
    /\ FnOff
    /\ AuxOff

\* A client invokes a tool: the handler runs up to the GET it blocks in, or
\* ends at once when make_prometheus_request raises before sending.
Invoke(c) ==
    /\ pc = "idle"
    /\ call' = c
    /\ LET s == make_prometheus_request_send(tool_endpoint(c), tool_params(c))
       IN  IF s.raised
           THEN /\ sent' = <<>>
                /\ outcome' = Outcome("error", NoPayload, s.err)
                /\ pc' = "done"
           ELSE /\ sent' = <<s.request>>
                /\ outcome' = NoOutcome
                /\ pc' = "waiting"
    /\ UNCHANGED <<config, requests_lib, response, fnVars, auxVars>>

\* The upstream answers r: the rest of make_prometheus_request and of the tool.
Respond ==
    /\ pc = "waiting"
    /\ \E r \in Responses(call.tool) :
        /\ response' = r
        /\ LET m == make_prometheus_request_recv(r)
               shaped == tool_shape(call, m.data)
           IN  outcome' = IF ~m.ok THEN Outcome("error", NoPayload, m.err)
                          ELSE IF shaped.raised THEN Outcome("error", NoPayload, shaped.err)
                          ELSE Outcome("ok", Payload(shaped.value), NoExc)
    /\ pc' = "done"
    /\ UNCHANGED <<config, requests_lib, call, sent, fnVars, auxVars>>

\* The result is handed to the client; the server is ready for the next call.
Return ==
    /\ pc = "done"
    /\ pc' = "idle"
    /\ call' = NoCall
    /\ sent' = <<>>
    /\ response' = NoResponse
    /\ outcome' = NoOutcome
    /\ UNCHANGED <<config, requests_lib, fnVars, auxVars>>

Next ==
    \/ \E c \in Calls : Invoke(c)
    \/ Respond
    \/ Return

Spec == Init /\ [][Next]_vars

----------------------------------------------------------------------------
(* Harness for the shapers: the arguments are drawn by the initial          *)
(* predicate, one step applies the function.  The tool layer stays off.     *)

ToolOff ==
    /\ config = [url |-> <<>>, username |-> "", password |-> "", token |-> "", org_id |-> ""]
    /\ requests_lib = "requests_ge_2_27"
    /\ pc = "off"
    /\ call = NoCall
    /\ sent = <<>>
    /\ response = NoResponse
    /\ outcome = NoOutcome

\* apply_pagination -----------------------------------------------------
PageSeqs == {[i \in 1..n |-> i] : n \in 0..MaxLen}
PageLimits == {None} \cup {Some(l) : l \in (-1)..MaxLimit}
PageOffsets == {None} \cup {Some(o) : o \in (-MaxOffset)..MaxOffset}

PageInit ==
    /\ ToolOff
    /\ AuxOff
    /\ fn_pc = "input"
    /\ fn_arg \in [data : PageSeqs, limit : PageLimits, offset : PageOffsets]
    /\ fn_ret = <<>>

Paginate ==
    /\ fn_pc = "input"
    /\ fn_ret' = apply_pagination(fn_arg.data, fn_arg.limit, fn_arg.offset)
    /\ fn_pc' = "done"
    /\ UNCHANGED <<fn_arg, toolVars, auxVars>>

SpecPage == PageInit /\ [][Paginate]_vars

\* filter_metrics -------------------------------------------------------
Names == UNION {[1..n -> RegexChars] : n \in 1..2}
NameLists == UNION {[1..n -> Names] : n \in 0..MaxNames}
Patterns == {NoneStr} \cup {SomeStr(p) : p \in UNION {[1..n -> RegexTokens] : n \in 0..2}}
Prefixes == {NoneStr} \cup {SomeStr(p) : p \in UNION {[1..n -> RegexChars] : n \in 0..2}}

FilterInit ==
    /\ ToolOff
    /\ AuxOff
    /\ fn_pc = "input"
    /\ fn_arg \in [metrics : NameLists, filter_pattern : Patterns, prefix : Prefixes]
    /\ fn_ret = <<>>

\* filter_metrics on its own, and list_metrics' shaping of the same upstream
\* list with the same filter arguments and no limit or offset.
Filter ==
    /\ fn_pc = "input"
    /\ fn_ret' = [filtered |-> filter_metrics(fn_arg.metrics, fn_arg.filter_pattern,
                                              fn_arg.prefix),
                  listed |-> list_metrics(
                                Call("list_metrics", "", "", None, None, FALSE, FALSE,
                                     fn_arg.filter_pattern, fn_arg.prefix),
                                fn_arg.metrics)]
    /\ fn_pc' = "done"
    /\ UNCHANGED <<fn_arg, toolVars, auxVars>>

SpecFilter == FilterInit /\ [][Filter]_vars

\* create_compact_query_result ------------------------------------------
LabelNames == {"__name__", "job", "instance"}
LabelValues == {"up", "api"}
Metrics == UNION {[D -> LabelValues] : D \in SUBSET LabelNames}
Samples == {<<10, "1">>, <<11, "0">>}
VecItems == [metric : Metrics, value : Samples]
MatrixItem == [metric |-> [__name__ |-> "up"], values |-> <<<<10, "1">>, <<11, "0">>>>]

CompactInputs ==
    {[resultType |-> "vector", result |-> v] :
        v \in UNION {[1..n -> VecItems] : n \in 0..MaxVec}}
    \cup {[resultType |-> "matrix", result |-> <<>>],
          [resultType |-> "matrix", result |-> <<MatrixItem>>],
          [resultType |-> "scalar", result |-> <<10, "42">>],
          [resultType |-> "string", result |-> <<10, "text">>]}

CompactInit ==
    /\ ToolOff
    /\ AuxOff
    /\ fn_pc = "input"
    /\ fn_arg \in CompactInputs
    /\ fn_ret = <<>>

Compact ==
    /\ fn_pc = "input"
    /\ fn_ret' = create_compact_query_result(fn_arg)
    /\ fn_pc' = "done"
    /\ UNCHANGED <<fn_arg, toolVars, auxVars>>

SpecCompact == CompactInit /\ [][Compact]_vars

----------------------------------------------------------------------------
(* Properties *)

Invoked == pc \in {"waiting", "done"}
HeaderNames(req) == {h.name : h \in req.headers}
HeaderValues(req, n) == {h.value : h \in {x \in req.headers : x.name = n}}

\* C1: the request a tool sends carries "Authorization: Bearer <token>" and no
\* basic credential when a token is configured (whatever the username and
\* password); otherwise the basic pair and no Authorization header when both
\* username and password are configured; otherwise neither.  X-Scope-OrgID:
\* <org_id> is on the request exactly when an org id is configured.
C1_AuthPrecedence ==
    (Invoked /\ sent # <<>>) =>
        LET req == sent[1]
        IN  /\ IF config.token # ""
               THEN /\ HeaderValues(req, "Authorization") = {<<"Bearer ", config.token>>}
                    /\ req.auth.kind = "none"
               ELSE IF config.username # "" /\ config.password # ""
               THEN /\ req.auth = [kind |-> "basic", username |-> config.username,
                                   password |-> config.password]
                    /\ "Authorization" \notin HeaderNames(req)
               ELSE /\ req.auth.kind = "none"
                    /\ "Authorization" \notin HeaderNames(req)
            /\ ("X-Scope-OrgID" \in HeaderNames(req)) <=> (config.org_id # "")
            /\ config.org_id # "" => HeaderValues(req, "X-Scope-OrgID") = {<<config.org_id>>}

\* A request was sent under a configuration holding a token, a username, a
\* password and an org id at once.
C1_Witness ==
    /\ Invoked /\ sent # <<>>
    /\ config.token # "" /\ config.username # "" /\ config.password # ""
    /\ config.org_id # ""

EnvelopeParsed == response.kind = "http" /\ response.status_ok /\ response.is_json

\* C2: when the parsed envelope has a status other than "success", the call
\* ends in ValueError "Prometheus API error: <error>" ("Unknown error" when
\* the envelope has no error field) and no payload is returned, whatever the
\* envelope's data field holds.
C2_ErrorStatusIsFailure ==
    (pc = "done" /\ EnvelopeParsed /\ response.env.has_status
        /\ response.env.status # "success") =>
        /\ outcome.kind = "error"
        /\ ~outcome.payload.present
        /\ outcome.err.cls = ValueErrorCls
        /\ outcome.err.msg = <<"Prometheus API error: ",
                               IF response.env.has_error THEN response.env.error
                               ELSE "Unknown error">>

\* An error envelope that carries both an error text and a data field was answered.
C2_Witness ==
    /\ pc = "done" /\ EnvelopeParsed
    /\ response.env.has_status /\ response.env.status = "error"
    /\ response.env.has_error /\ response.env.has_data
    /\ outcome.kind = "error"

\* C3: a 2xx answer whose body is not JSON ends in the "Invalid JSON response
\* from Prometheus" ValueError, never in a RequestException (the transport
\* error kind).
C3_NonJsonIsFormatError ==
    (pc = "done" /\ response.kind = "http" /\ response.status_ok /\ ~response.is_json) =>
        /\ outcome.kind = "error"
        /\ "RequestException" \notin outcome.err.cls
        /\ outcome.err.msg[1] = "Invalid JSON response from Prometheus: "

\* C4: with an empty base URL no GET is ever sent, and an invocation ends in the
\* "configuration is missing" ValueError.
C4_NoUrlNoRequest ==
    config.url = <<>> =>
        /\ sent = <<>>
        /\ pc # "waiting"
        /\ pc = "done" =>
            /\ outcome.kind = "error"
            /\ ~outcome.payload.present
            /\ outcome.err = Exc(ValueErrorCls, <<"Prometheus configuration is missing. Please set PROMETHEUS_URL environment variable.">>)

\* A tool was invoked under an empty base URL and has ended.
C4_Witness == pc = "done" /\ config.url = <<>> /\ call.tool # "none"

EndpointOf ==
    [execute_query |-> "query",
     execute_range_query |-> "query_range",
     list_metrics |-> "label/__name__/values",
     get_metric_metadata |-> "metadata",
     get_targets |-> "targets"]

RequestSucceeded ==
    /\ EnvelopeParsed
    /\ response.env.has_status /\ response.env.status = "success"
    /\ response.env.has_data

OwnEndpointOnly ==
    /\ Len(sent) = 1
    /\ sent[1].url = rstrip_slash(config.url) \o <<"/api/v1/", EndpointOf[call.tool]>>

FailureSurfaces ==
    (pc = "done" /\ ~RequestSucceeded) =>
        /\ outcome.kind = "error"
        /\ ~outcome.payload.present
        /\ outcome.err = make_prometheus_request_recv(response).err

\* C5 as stated: every invocation issues exactly one request, to its own
\* endpoint, and a failed request ends the invocation in that error with no payload.
C5_ExactlyOneRequest ==
    Invoked => (OwnEndpointOnly /\ FailureSurfaces)

\* C5 amended: an invocation under an empty base URL issues no request; every
\* other invocation issues exactly one request, to its own endpoint, never a
\* second; a failed request ends the invocation in that error with no payload.
C5_OneRequestWhenConfigured ==
    Invoked =>
        IF config.url = <<>>
        THEN sent = <<>> /\ outcome.kind = "error" /\ ~outcome.payload.present
        ELSE OwnEndpointOnly /\ FailureSurfaces

\* A get_targets invocation whose single request was refused at connection.
C5_Witness ==
    /\ pc = "done" /\ call.tool = "get_targets"
    /\ Len(sent) = 1 /\ response.kind = "conn_error"
    /\ outcome.kind = "error"

----------------------------------------------------------------------------
(* Properties of the shapers (SpecPage, SpecFilter, SpecCompact) *)

OffsetUsed(o) == IF o.some THEN o.val ELSE 0

\* S[off:off+limit] (S[off:] without a limit) for 0 <= off <= Len(S), limit >= 0.
ExpectedPage(S, off, limit) ==
    [i \in 1..(IF limit.some THEN Min(limit.val, Len(S) - off) ELSE Len(S) - off) |->
        S[off + i]]

InRange ==
    /\ OffsetUsed(fn_arg.offset) >= 0
    /\ OffsetUsed(fn_arg.offset) <= Len(fn_arg.data)
    /\ fn_arg.limit.some => fn_arg.limit.val >= 0

\* C6: for 0 <= offset <= len(S) (absent: 0) and limit >= 0 or absent, data is
\* S[offset:offset+limit] (S[offset:] without a limit), total = len(S), offset
\* is the offset used, limit the limit given, returned = len(data), and hasMore
\* holds exactly when a limit was given and offset+limit < len(S).
C6_PaginationContract ==
    (fn_pc = "done" /\ InRange) =>
        LET S == fn_arg.data
            off == OffsetUsed(fn_arg.offset)
        IN  /\ fn_ret.data = ExpectedPage(S, off, fn_arg.limit)
            /\ fn_ret.metadata.total = Len(S)
            /\ fn_ret.metadata.offset = off
            /\ fn_ret.metadata.limit = fn_arg.limit
            /\ fn_ret.metadata.returned = Len(fn_ret.data)
            /\ fn_ret.metadata.hasMore <=>
                  (fn_arg.limit.some /\ off + fn_arg.limit.val < Len(S))

\* A page from the middle of the sequence that ends exactly at its last item.
C6_Witness ==
    /\ fn_pc = "done" /\ InRange
    /\ fn_arg.offset.some /\ fn_arg.offset.val > 0
    /\ fn_arg.limit.some /\ fn_arg.limit.val >= 2
    /\ fn_arg.offset.val + fn_arg.limit.val = Len(fn_arg.data)
    /\ fn_ret.metadata.returned = fn_arg.limit.val

\* C7: a negative offset behaves exactly like offset 0 (metadata.offset is 0
\* and data starts at the first item); an offset at or beyond len(S) yields
\* empty data, returned = 0, total = len(S) and hasMore = false.
C7_OffsetsNormalised ==
    (fn_pc = "done" /\ fn_arg.offset.some
        /\ (fn_arg.limit.some => fn_arg.limit.val >= 0)) =>
        LET S == fn_arg.data
        IN  /\ fn_arg.offset.val < 0 =>
                /\ fn_ret.metadata.offset = 0
                /\ fn_ret.data = ExpectedPage(S, 0, fn_arg.limit)
                /\ fn_ret.metadata.returned = Len(fn_ret.data)
                /\ fn_ret.metadata.total = Len(S)
            /\ fn_arg.offset.val >= Len(S) =>
                /\ fn_ret.data = <<>>
                /\ fn_ret.metadata.returned = 0
                /\ fn_ret.metadata.total = Len(S)
                /\ ~fn_ret.metadata.hasMore

PatternValid == fn_arg.filter_pattern.some => re_compile_ok(fn_arg.filter_pattern.val)

PrefixHolds(m) == fn_arg.prefix.some => StartsWith(m, fn_arg.prefix.val)
PatternHolds(m) == fn_arg.filter_pattern.some => re_search(fn_arg.filter_pattern.val, m)

\* C8: with a valid pattern, filter_metrics returns exactly the names, in input
\* order, that start with the prefix (when given) and hold a match of the
\* pattern somewhere (when given); with neither argument, the input.
C8_FilterIntersects ==
    (fn_pc = "done" /\ PatternValid) =>
        /\ ~fn_ret.filtered.raised
        /\ fn_ret.filtered.value =
              SelectSeq(fn_arg.metrics, LAMBDA m : PrefixHolds(m) /\ PatternHolds(m))
        /\ (~fn_arg.prefix.some /\ ~fn_arg.filter_pattern.some) =>
              fn_ret.filtered.value = fn_arg.metrics

\* Prefix and pattern both given: one name passes both, one passes only the
\* pattern (matched past its first character), and only the first is returned.
C8_Witness ==
    /\ fn_pc = "done" /\ PatternValid
    /\ Truthy(fn_arg.prefix) /\ Truthy(fn_arg.filter_pattern)
    /\ Len(fn_arg.metrics) = 2
    /\ Len(fn_ret.filtered.value) = 1
    /\ \E i \in 1..2 :
          /\ ~PrefixHolds(fn_arg.metrics[i]) /\ PatternHolds(fn_arg.metrics[i])
    /\ \E i \in 1..2 :
          /\ PrefixHolds(fn_arg.metrics[i]) /\ PatternHolds(fn_arg.metrics[i])
          /\ ~re_match(fn_arg.filter_pattern.val, fn_arg.metrics[i])

PatternInvalid == fn_arg.filter_pattern.some /\ ~re_compile_ok(fn_arg.filter_pattern.val)

\* C9: with a pattern that does not compile no exception escapes filter_metrics
\* and its result is the prefix-filtered list (the whole input without a
\* prefix); list_metrics with that pattern returns a success payload.
C9_InvalidPatternSkipped ==
    (fn_pc = "done" /\ PatternInvalid) =>
        /\ ~fn_ret.filtered.raised
        /\ fn_ret.filtered.value = SelectSeq(fn_arg.metrics, PrefixHolds)
        /\ ~fn_arg.prefix.some => fn_ret.filtered.value = fn_arg.metrics
        /\ ~fn_ret.listed.raised
        /\ fn_ret.listed.value.metrics = SelectSeq(fn_arg.metrics, PrefixHolds)

\* An invalid pattern together with a prefix that removes a name.
C9_Witness ==
    /\ fn_pc = "done" /\ PatternInvalid
    /\ Truthy(fn_arg.prefix)
    /\ Len(fn_arg.metrics) = 2
    /\ Len(fn_ret.filtered.value) = 1
    /\ ~fn_ret.listed.raised

\* C10: a result whose type is not "vector" is returned unchanged; a vector
\* becomes "compact_vector" with the same length and order, item i having name
\* = the metric's __name__ ("unknown" without one), value = value[1],
\* timestamp = value[0] and labels = the metric without its __name__ key.
C10_CompactShape ==
    fn_pc = "done" =>
        IF fn_arg.resultType # "vector"
        THEN fn_ret = fn_arg
        ELSE /\ fn_ret.resultType = "compact_vector"
             /\ DOMAIN fn_ret = {"resultType", "result"}
             /\ Len(fn_ret.result) = Len(fn_arg.result)
             /\ \A i \in 1..Len(fn_arg.result) :
                  LET item == fn_arg.result[i]
                      out == fn_ret.result[i]
                  IN  /\ DOMAIN out = {"name", "value", "timestamp", "labels"}
                      /\ out.name = IF "__name__" \in DOMAIN item.metric
                                    THEN item.metric["__name__"] ELSE "unknown"
                      /\ out.value = item.value[2]
                      /\ out.timestamp = item.value[1]
                      /\ DOMAIN out.labels = (DOMAIN item.metric) \ {"__name__"}
                      /\ \A k \in DOMAIN out.labels : out.labels[k] = item.metric[k]

\* A vector of two items, the first named with another label, the second unnamed.
C10_Witness ==
    /\ fn_pc = "done" /\ fn_arg.resultType = "vector"
    /\ Len(fn_arg.result) = 2
    /\ DOMAIN fn_arg.result[1].metric = {"__name__", "job"}
    /\ DOMAIN fn_arg.result[2].metric = {"instance"}
    /\ fn_ret.result[2].name = "unknown"

----------------------------------------------------------------------------
(* Properties of the tool results (Spec) *)

\* A tool has ended with a result built from the upstream data.
ToolDone(tool) == pc = "done" /\ call.tool = tool /\ outcome.kind = "ok"
Raw == response.env.data
Result == outcome.payload.value
Paged == call.limit.some \/ call.offset.some

\* C11: the execute_query payload has a pagination block exactly when limit or
\* offset was supplied and the raw result is a sequence; without limit, offset
\* and compact the payload is exactly {resultType, result} as received; a
\* pagination block has total = number of raw items and returned = number of
\* items in the payload's result.
C11_PaginationBlock ==
    ToolDone("execute_query") =>
        /\ ("pagination" \in DOMAIN Result) <=> (Paged /\ Raw.result_is_list)
        /\ (~Paged /\ ~call.compact) =>
                Result = [resultType |-> Raw.resultType, result |-> Raw.result]
        /\ ("pagination" \in DOMAIN Result) =>
                /\ Result.pagination.total = Len(Raw.result)
                /\ Result.pagination.returned = Len(Result.result)

\* A paginated query over three raw items returned a shorter page.
C11_Witness ==
    /\ ToolDone("execute_query") /\ ~call.compact
    /\ "pagination" \in DOMAIN Result
    /\ Result.pagination.total = 3 /\ Result.pagination.returned = 2

\* C12: compact=true with limit and/or offset on a vector result returns the
\* compacted form of raw items offset .. offset+limit-1 in order, resultType
\* "compact_vector", and the pagination block computed on the raw result; the
\* same as paginating the compacted full result.
C12_CompactPaginateCommute ==
    (ToolDone("execute_query") /\ call.compact /\ Paged /\ Raw.resultType = "vector") =>
        LET page == ExpectedPage(Raw.result, OffsetUsed(call.offset), call.limit)
            onRaw == apply_pagination(Raw.result, call.limit, call.offset)
            full == create_compact_query_result(
                        [resultType |-> Raw.resultType, result |-> Raw.result])
            onCompact == apply_pagination(full.result, call.limit, call.offset)
        IN  /\ Result.result = [i \in 1..Len(page) |-> compact_item(page[i])]
            /\ Result.resultType = "compact_vector"
            /\ Result.pagination = onRaw.metadata
            /\ Result.result = onCompact.data
            /\ Result.pagination = onCompact.metadata

\* Compact query with offset 1 and limit 1 over three items: one compacted
\* item, the second raw one, with more to come.
C12_Witness ==
    /\ ToolDone("execute_query") /\ call.compact
    /\ call.limit = Some(1) /\ call.offset = Some(1)
    /\ Raw.resultType = "vector" /\ Len(Raw.result) = 3
    /\ Result.result = <<compact_item(VecItem2)>>
    /\ Result.pagination.hasMore

\* The names of the upstream list that pass the invocation's filters, in order.
PassesFilters(m) ==
    /\ (Truthy(call.prefix) => StartsWith(m, call.prefix.val))
    /\ ((Truthy(call.filter_pattern) /\ re_compile_ok(call.filter_pattern.val)) =>
            re_search(call.filter_pattern.val, m))
FilteredNames == SelectSeq(Raw, PassesFilters)

C14_TargetsShape ==
    ToolDone("get_targets") =>
        /\ ("droppedTargets" \in DOMAIN Result) <=> ~call.active_only
        /\ ("droppedTargets" \in DOMAIN Result) =>
                Result.droppedTargets = Raw.droppedTargets
        /\ ("activePagination" \in DOMAIN Result) <=> Paged
        /\ Result.activeTargets =
                IF Paged
                THEN ExpectedPage(Raw.activeTargets, OffsetUsed(call.offset), call.limit)
                ELSE Raw.activeTargets
        /\ Paged => Result.activePagination =
                        apply_pagination(Raw.activeTargets, call.limit, call.offset).metadata

\* Paginated targets, dropped ones included: one of three active targets
\* returned, both dropped targets returned.
C14_Witness ==
    /\ ToolDone("get_targets") /\ ~call.active_only /\ call.limit = Some(1)
    /\ Len(Raw.activeTargets) = 3 /\ Len(Result.activeTargets) = 1
    /\ Result.droppedTargets = <<"d1", "d2">>

\* list_metrics() with every parameter left at its default.
NoParameters ==
    call = Call("list_metrics", "", "", None, None, FALSE, FALSE, NoneStr, NoneStr)

\* C18: list_metrics with no parameters makes a single request to
\* label/__name__/values and its result is exactly the sequence of names the
\* upstream returned: the same elements in the same order.
C18_BareNameSequence ==
    (ToolDone("list_metrics") /\ NoParameters) =>
        /\ OwnEndpointOnly
        /\ DOMAIN Result = DOMAIN Raw
        /\ \A i \in DOMAIN Raw : Result[i] = Raw[i]

----------------------------------------------------------------------------
(* Process startup: the import of server.py (the construction of config,    *)
(* server.py:63-74) and run_server (main.py:65-84).                         *)

\* str.lower() on the characters that occur in the transport settings.
UpperToLower == [H |-> "h", T |-> "t", P |-> "p", S |-> "s", E |-> "e"]
lower(s) == [i \in 1..Len(s) |-> IF s[i] \in DOMAIN UpperToLower
                                 THEN UpperToLower[s[i]] ELSE s[i]]

\* int(text) for text over digits, a sign and letters: the value, or ValueError.
DigitValue == [c \in {"0", "5", "8"} |-> CASE c = "0" -> 0 [] c = "5" -> 5 [] c = "8" -> 8]
RECURSIVE digits_value(_)
digits_value(s) ==
    IF s = <<>> THEN 0
    ELSE 10 * digits_value(SubSeq(s, 1, Len(s) - 1)) + DigitValue[s[Len(s)]]
py_int(s) ==
    LET signed == s # <<>> /\ s[1] \in {"-", "+"}
        digits == IF signed THEN Tail(s) ELSE s
    IN  IF digits # <<>> /\ \A i \in 1..Len(digits) : digits[i] \in DOMAIN DigitValue
        THEN Value(IF signed /\ s[1] = "-" THEN 0 - digits_value(digits)
                   ELSE digits_value(digits))
        ELSE Escapes(Exc(ValueErrorCls, <<"invalid literal for int() with base 10">>))

\* server.py:23-33
TransportType == [STDIO |-> <<"s", "t", "d", "i", "o">>,
                  HTTP |-> <<"h", "t", "t", "p">>,
                  SSE |-> <<"s", "s", "e">>]
TransportType_values == {TransportType[k] : k \in DOMAIN TransportType}

\* server.py:35-49: the dataclass and its __post_init__.
MCPServerConfig(transport, host, port) ==
    IF transport = <<>>
    THEN Escapes(Exc(ValueErrorCls, <<"MCP SERVER TRANSPORT is required">>))
    ELSE IF host = <<>>
    THEN Escapes(Exc(ValueErrorCls, <<"MCP BIND HOST is required">>))
    ELSE IF port = 0
    THEN Escapes(Exc(ValueErrorCls, <<"MCP BIND PORT is required">>))
    ELSE Value([mcp_server_transport |-> transport, mcp_bind_host |-> host,
                mcp_bind_port |-> port])

\* os.environ.get(name, default)
environ_get(e, name, default) == IF e[name].some THEN e[name].val ELSE default

\* server.py:69-73: the arguments are evaluated first, then the constructor runs.
load_mcp_server_config(e) ==
    LET transport == lower(environ_get(e, "PROMETHEUS_MCP_SERVER_TRANSPORT", TransportType.STDIO))
        host == environ_get(e, "PROMETHEUS_MCP_BIND_HOST", <<"127.0.0.1">>)
        port == py_int(environ_get(e, "PROMETHEUS_MCP_BIND_PORT", <<"8", "0", "8", "0">>))
    IN  IF port.raised THEN port
        ELSE MCPServerConfig(transport, host, port.value)

SetupResult(ok, authMethod) == [ok |-> ok, auth_method |-> authMethod]

setup_environment_url_unchecked ==
    IF lower(mcp_server_config.mcp_server_transport) \notin TransportType_values
    THEN SetupResult(FALSE, "")
    ELSE SetupResult(TRUE,
            IF config.username # "" /\ config.password # "" THEN "basic_auth"
            ELSE IF config.token # "" THEN "bearer_token"
            ELSE "none")

\* main.py:10-63.  mcp_bind_port is already an int, so int() at line 39
\* cannot raise; auth_method is what line 56-61 logs.
setup_environment ==
    IF config.url = <<>>
    THEN SetupResult(FALSE, "")
    ELSE IF lower(mcp_server_config.mcp_server_transport) \notin TransportType_values
    THEN SetupResult(FALSE, "")
    ELSE SetupResult(TRUE,
            IF config.username # "" /\ config.password # "" THEN "basic_auth"
            ELSE IF config.token # "" THEN "bearer_token"
            ELSE "none")

\* main.py:72-83: the call of mcp.run.
McpRun(transport, bind, host, port) ==
    [called |-> TRUE, transport |-> transport, bind |-> bind, host |-> host, port |-> port]
mcp_run_call ==
    LET transport == mcp_server_config.mcp_server_transport
        http_transports == {TransportType.HTTP, TransportType.SSE}
    IN  IF transport \in http_transports
        THEN McpRun(transport, TRUE, mcp_server_config.mcp_bind_host,
                    mcp_server_config.mcp_bind_port)
        ELSE McpRun(transport, FALSE, <<>>, 0)

\* The environment a process may start in.
EnvTransports == {NoneStr, SomeStr(<<>>), SomeStr(TransportType.STDIO),
                  SomeStr(TransportType.HTTP), SomeStr(<<"H", "T", "T", "P">>),
                  SomeStr(<<"S", "s", "e">>), SomeStr(<<"g", "r", "p", "c">>)}
EnvHosts == {NoneStr, SomeStr(<<>>), SomeStr(<<"0.0.0.0">>)}
EnvPorts == {NoneStr, SomeStr(<<>>), SomeStr(<<"8", "0">>), SomeStr(<<"-", "5">>),
             SomeStr(<<"0">>), SomeStr(<<"a", "b", "c">>)}
Environs == [PROMETHEUS_MCP_SERVER_TRANSPORT : EnvTransports,
             PROMETHEUS_MCP_BIND_HOST : EnvHosts,
             PROMETHEUS_MCP_BIND_PORT : EnvPorts]

MainInit ==
    /\ config \in Configs
    /\ requests_lib = "requests_ge_2_27"
    /\ pc = "off" /\ call = NoCall /\ sent = <<>>
    /\ response = NoResponse /\ outcome = NoOutcome
    /\ FnOff
    /\ slots = <<>>
    /\ environ \in Environs
    /\ mcp_server_config = NoMcpConfig
    /\ proc = Proc("start", FALSE, "", NoMcpRun, None)

\* import of prometheus_mcp_server.server: an exception raised while config is
\* constructed ends the process (uncaught, exit status 1) before run_server.
Import ==
    /\ proc.pc = "start"
    /\ LET c == load_mcp_server_config(environ)
       IN  IF c.raised
           THEN /\ mcp_server_config' = NoMcpConfig
                /\ proc' = [proc EXCEPT !.pc = "import_failed", !.exit_status = Some(1)]
           ELSE /\ mcp_server_config' = c.value
                /\ proc' = [proc EXCEPT !.pc = "imported"]
    /\ UNCHANGED <<environ, slots, toolVars, fnVars>>

\* main.py:68: run_server calls setup_environment.
SetupEnvironment ==
    /\ proc.pc = "imported"
    /\ proc' = [proc EXCEPT !.pc = "validated",
                            !.setup_ok = setup_environment.ok,
                            !.auth_method = setup_environment.auth_method]
    /\ UNCHANGED <<environ, mcp_server_config, slots, toolVars, fnVars>>

\* main.py:68-83: sys.exit(1), or mcp.run.
RunServer ==
    /\ proc.pc = "validated"
    /\ proc' = IF ~proc.setup_ok
               THEN [proc EXCEPT !.pc = "exited", !.exit_status = Some(1)]
               ELSE [proc EXCEPT !.pc = "serving", !.mcp_run = mcp_run_call]
    /\ UNCHANGED <<environ, mcp_server_config, slots, toolVars, fnVars>>

MainNext == Import \/ SetupEnvironment \/ RunServer
SpecMain == MainInit /\ [][MainNext]_vars

\* C15: mcp.run is called only after setup_environment returned true; when it
\* returned false, as it does whenever the upstream URL is absent, run_server
\* exits with status 1 and mcp.run is never called.
C15_ServeOnlyWhenValidated ==
    /\ proc.mcp_run.called => (proc.pc = "serving" /\ proc.setup_ok)
    /\ (proc.pc \in {"validated", "serving", "exited"} /\ config.url = <<>>) =>
            ~proc.setup_ok
    /\ (proc.pc \in {"serving", "exited"} /\ ~proc.setup_ok) =>
            (proc.pc = "exited" /\ proc.exit_status = Some(1) /\ ~proc.mcp_run.called)

\* run_server has exited with status 1 for want of the upstream URL, under MCP
\* settings that are valid.
C15_Witness ==
    /\ proc.pc = "exited" /\ config.url = <<>> /\ proc.exit_status = Some(1)
    /\ ~proc.mcp_run.called
    /\ mcp_server_config.mcp_server_transport = TransportType.HTTP

\* C16: when run_server starts the tool server, the configuration's transport
\* is one of stdio, http, sse (accepted case-insensitively), and under http or
\* sse the server is started bound to the configured host and to a bind port
\* that is a positive integer.
C16_ValidTransportAndPort ==
    proc.mcp_run.called =>
        /\ mcp_server_config.mcp_server_transport \in TransportType_values
        /\ proc.mcp_run.transport = mcp_server_config.mcp_server_transport
        /\ (mcp_server_config.mcp_server_transport \in {TransportType.HTTP, TransportType.SSE}) =>
                /\ proc.mcp_run.bind
                /\ proc.mcp_run.host = mcp_server_config.mcp_bind_host
                /\ proc.mcp_run.port = mcp_server_config.mcp_bind_port
                /\ proc.mcp_run.port > 0

\* The method get_prometheus_auth attaches, in the words of the startup log.
AttachedMethod ==
    CASE get_prometheus_auth.kind = "dict" -> "bearer_token"
      [] get_prometheus_auth.kind = "basic" -> "basic_auth"
      [] get_prometheus_auth.kind = "none" -> "none"

\* C19: the authentication method setup_environment reports at startup is the
\* one get_prometheus_auth attaches to outbound requests; with a bearer token
\* and a username/password pair both configured, both select the bearer token.
C19_ReportedAuthIsAttached ==
    (proc.pc \in {"validated", "serving"} /\ proc.setup_ok) =>
        proc.auth_method = AttachedMethod

----------------------------------------------------------------------------
(* Concurrent dispatch: the runtime may hold several tool invocations at    *)
(* once, each suspended at its upstream call.  The parameters, the request  *)
(* and the response of an invocation are locals of its own frame; config    *)
(* (server.py:63) is the one module-level object the tools read.            *)

Slot(at, c, s, r, o) == [pc |-> at, call |-> c, sent |-> s, response |-> r, outcome |-> o]
IdleSlot == Slot("idle", NoCall, <<>>, NoResponse, NoOutcome)

\* The invocations dispatched concurrently and the answers they get.
ConcCalls ==
    {Call("execute_query", "up", "", l, None, k, FALSE, NoneStr, NoneStr) :
        l \in {None, Some(1)}, k \in BOOLEAN}
    \cup {Call("list_metrics", "", "", l, None, FALSE, FALSE, NoneStr, px) :
        l \in {None, Some(2)}, px \in ToolPrefixes}
    \cup {Call("get_targets", "", "", None, o, FALSE, TRUE, NoneStr, NoneStr) :
        o \in {None, Some(1)}}

ConcData(tool) ==
    CASE tool = "execute_query" -> QueryData("vector", <<VecItem1, VecItem2>>, TRUE)
      [] tool = "list_metrics" -> <<<<"a", "b">>, <<"b", "a">>, <<"a", "a">>>>
      [] tool = "get_targets" -> [activeTargets |-> <<"t1", "t2", "t3">>,
                                  droppedTargets |-> <<"d1", "d2">>]

ConcResponses(tool) ==
    {Response("conn_error", FALSE, FALSE, NoEnvelope),
     Response("http", TRUE, TRUE, Envelope(TRUE, "error", TRUE, "bad query", FALSE, <<>>)),
     Response("http", TRUE, TRUE, Envelope(TRUE, "success", FALSE, "", TRUE, ConcData(tool)))}

handler_locals_shared(i) ==
    [slots[i].call EXCEPT !.limit = slots[1].call.limit, !.offset = slots[1].call.offset]

\* The parameters invocation i works with: the arguments it was called with.
handler_locals(i) == slots[i].call

\* A server that passed startup with the default MCP settings.
ConcInit ==
    /\ config \in {c \in Configs : c.url # <<>> /\ c.username = "" /\ c.password = ""
                                   /\ c.org_id = ""}
    /\ requests_lib = "requests_ge_2_27"
    /\ pc = "off" /\ call = NoCall /\ sent = <<>>
    /\ response = NoResponse /\ outcome = NoOutcome
    /\ FnOff
    /\ environ = [PROMETHEUS_MCP_SERVER_TRANSPORT |-> NoneStr,
                  PROMETHEUS_MCP_BIND_HOST |-> NoneStr,
                  PROMETHEUS_MCP_BIND_PORT |-> NoneStr]
    /\ mcp_server_config = load_mcp_server_config(environ).value
    /\ proc = Proc("serving", TRUE, setup_environment.auth_method, mcp_run_call, None)
    /\ slots = [i \in 1..MaxSlots |-> IdleSlot]

\* Invocation i starts and runs up to its GET.
ConcInvoke(i, c) ==
    /\ slots[i].pc = "idle"
    /\ LET s == make_prometheus_request_send(tool_endpoint(c), tool_params(c))
       IN  slots' = [slots EXCEPT ![i] =
                IF s.raised
                THEN Slot("done", c, <<>>, NoResponse, Outcome("error", NoPayload, s.err))
                ELSE Slot("waiting", c, <<s.request>>, NoResponse, NoOutcome)]
    /\ UNCHANGED <<toolVars, fnVars, mainVars>>

\* The upstream answers invocation i, which runs to its end.
ConcRespond(i) ==
    /\ slots[i].pc = "waiting"
    /\ \E r \in ConcResponses(slots[i].call.tool) :
        LET m == make_prometheus_request_recv(r)
            shaped == tool_shape(handler_locals(i), m.data)
        IN  slots' = [slots EXCEPT ![i] =
                [@ EXCEPT !.pc = "done", !.response = r,
                          !.outcome = IF ~m.ok THEN Outcome("error", NoPayload, m.err)
                                      ELSE IF shaped.raised
                                      THEN Outcome("error", NoPayload, shaped.err)
                                      ELSE Outcome("ok", Payload(shaped.value), NoExc)]]
    /\ UNCHANGED <<toolVars, fnVars, mainVars>>

\* The result of invocation i is handed to its client.
ConcReturn(i) ==
    /\ slots[i].pc = "done"
    /\ slots' = [slots EXCEPT ![i] = IdleSlot]
    /\ UNCHANGED <<toolVars, fnVars, mainVars>>

ConcNext ==
    \E i \in 1..MaxSlots :
        \/ \E c \in ConcCalls : ConcInvoke(i, c)
        \/ ConcRespond(i)
        \/ ConcReturn(i)

SpecConc == ConcInit /\ [][ConcNext]_vars

\* What an invocation with parameters c produces when run alone: its request,
\* and its outcome under the upstream response r.
SoloSent(c) ==
    LET s == make_prometheus_request_send(tool_endpoint(c), tool_params(c))
    IN  IF s.raised THEN <<>> ELSE <<s.request>>
SoloOutcome(c, r) ==
    LET s == make_prometheus_request_send(tool_endpoint(c), tool_params(c))
        m == make_prometheus_request_recv(r)
        shaped == tool_shape(c, m.data)
    IN  IF s.raised THEN Outcome("error", NoPayload, s.err)
        ELSE IF ~m.ok THEN Outcome("error", NoPayload, m.err)
        ELSE IF shaped.raised THEN Outcome("error", NoPayload, shaped.err)
        ELSE Outcome("ok", Payload(shaped.value), NoExc)

EachAsIfAlone ==
    \A i \in 1..MaxSlots :
        /\ slots[i].pc # "idle" => slots[i].sent = SoloSent(slots[i].call)
        /\ slots[i].pc = "done" =>
                slots[i].outcome = SoloOutcome(slots[i].call, slots[i].response)

----------------------------------------------------------------------------
(* A client paging through a sequence with apply_pagination: it starts at   *)
(* offset 0 with a fixed limit >= 1 and, while the page says hasMore, asks  *)
(* again with the offset advanced by the page's returned count (the way a   *)
(* caller pages through list_metrics, server.py:350-356).                   *)

ClientItems == {"x", "y"}
ClientSeqs == UNION {[1..n -> ClientItems] : n \in 0..MaxLen}

Paging(offset, collected, called, hasMore, returned) ==
    [offset |-> offset, collected |-> collected, called |-> called,
     hasMore |-> hasMore, returned |-> returned]

ClientInit ==
    /\ ToolOff
    /\ AuxOff
    /\ fn_pc = "paging"
    /\ fn_arg \in [data : ClientSeqs, limit : 1..MaxLimit]
    /\ fn_ret = Paging(0, <<>>, FALSE, FALSE, 0)

\* One call of apply_pagination and the client's bookkeeping of its answer.
ClientCall ==
    /\ fn_pc = "paging"
    /\ LET page == apply_pagination(fn_arg.data, Some(fn_arg.limit), Some(fn_ret.offset))
       IN  /\ fn_ret' = Paging(fn_ret.offset + page.metadata.returned,
                               fn_ret.collected \o page.data, TRUE,
                               page.metadata.hasMore, page.metadata.returned)
           /\ fn_pc' = IF page.metadata.hasMore THEN "paging" ELSE "stopped"
    /\ UNCHANGED <<fn_arg, toolVars, auxVars>>

\* The client does make its next call while it has one to make.
SpecClient == ClientInit /\ [][ClientCall]_vars /\ WF_vars(ClientCall)

\* C20: for every sequence S and fixed limit >= 1, the client that pages from
\* offset 0, advancing by the returned count while hasMore is true, stops
\* after finitely many calls; the concatenation of its pages is S; and every
\* page with hasMore true is non-empty.
C20_PagingCoversAll ==
    /\ <>(fn_pc = "stopped")
    /\ [](fn_pc = "stopped" => fn_ret.collected = fn_arg.data)
    /\ []((fn_ret.called /\ fn_ret.hasMore) => fn_ret.returned > 0)

\* The client has stopped after the second page of a sequence of four items
\* paged by two, an exact multiple of the limit.
C20_Witness ==
    /\ fn_pc = "stopped" /\ fn_ret.called
    /\ Len(fn_arg.data) = 4 /\ fn_arg.limit = 2
    /\ fn_ret.collected = fn_arg.data /\ fn_ret.returned = 2

====
